---- MODULE Spec2Model ----
(***************************************************************************)
(* Anonymous message board (hussainjamal760/anonymous).                    *)
(*                                                                         *)
(* The repository holds three revisions of one Express server:            *)
(*   "part_000"  src/unnamed/part_000  message + ipAddress only            *)
(*   "part_001"  src/unnamed/part_001  + location enrichment               *)
(*   "server"    src/server.js         + device enrichment (canonical)     *)
(* One revision is deployed at a time; rev records which.                  *)
(*                                                                         *)
(* JavaScript strings are sequences of one-character strings, so that      *)
(* trim, split, includes, startsWith and substring are computed on the     *)
(* characters.  JavaScript values that may be undefined / null / a number *)
(* are tagged records (Undef, Null, Num, Str).                             *)
(***************************************************************************)
EXTENDS Integers, Sequences, FiniteSets, TLC

\* ------------------------------------------------------------------ bounds

\* Number of POST /send-message calls in flight at once.
NumRequests == 2

\* Number of GET /stats calls answered in a behaviour.
MaxStats == 1

\* maxLength of content (schema) and of the handler's length check.
MaxLength == 1000

\* ------------------------------------------------------- JavaScript values

Undef == [t |-> "undefined"]
Null == [t |-> "null"]
Num(n) == [t |-> "number", n |-> n]
Bool(b) == [t |-> "boolean", b |-> b]
Str(s) == [t |-> "string", s |-> s]

\* ToBoolean: undefined, null, 0, the empty string and false are falsy.
Truthy(x) ==
  CASE x.t = "undefined" -> FALSE
    [] x.t = "null" -> FALSE
    [] x.t = "number" -> x.n # 0
    [] x.t = "string" -> x.s # <<>>
    [] x.t = "boolean" -> x.b

\* a || b
Or(a, b) == IF Truthy(a) THEN a ELSE b

\* ------------------------------------------------------- String.prototype

\* White space removed by trim (space, tab, line feed, carriage return).
IsWhiteSpace(c) == c \in {" ", "\t", "\n", "\r"}

Repeat(c, n) == [i \in 1..n |-> c]

\* s.trim(): s without its leading and trailing white space.
Trim(s) ==
  IF \A i \in 1..Len(s) : IsWhiteSpace(s[i])
  THEN <<>>
  ELSE LET lead == CHOOSE k \in 0..(Len(s) - 1) :
                     /\ ~IsWhiteSpace(s[k + 1])
                     /\ \A j \in 1..k : IsWhiteSpace(s[j])
           trail == CHOOSE k \in 0..(Len(s) - 1) :
                      /\ ~IsWhiteSpace(s[Len(s) - k])
                      /\ \A j \in 1..k : IsWhiteSpace(s[Len(s) - j + 1])
       IN SubSeq(s, lead + 1, Len(s) - trail)

\* s.includes(sub)
Includes(s, sub) ==
  \E i \in 0..(Len(s) - Len(sub)) : SubSeq(s, i + 1, i + Len(sub)) = sub

\* s.startsWith(p)
StartsWith(s, p) == Len(s) >= Len(p) /\ SubSeq(s, 1, Len(p)) = p

\* s.substring(n): s from its n-th character (0-based) on.
Substring(s, n) == SubSeq(s, n + 1, Len(s))

\* s.split(',')[0]: s up to its first comma.
SplitFirst(s) ==
  IF \E i \in 1..Len(s) : s[i] = ","
  THEN LET k == CHOOSE i \in 1..Len(s) :
                  s[i] = "," /\ \A j \in 1..(i - 1) : s[j] # ","
       IN SubSeq(s, 1, k - 1)
  ELSE s

\* s.toLowerCase() on the Latin letters.
UpperCase ==
  <<"A","B","C","D","E","F","G","H","I","J","K","L","M","N","O","P","Q","R","S","T","U","V","W","X","Y","Z">>
LowerCase ==
  <<"a","b","c","d","e","f","g","h","i","j","k","l","m","n","o","p","q","r","s","t","u","v","w","x","y","z">>
ToLowerCase(s) ==
  [i \in 1..Len(s) |->
     IF \E k \in 1..Len(UpperCase) : UpperCase[k] = s[i]
     THEN LowerCase[CHOOSE k \in 1..Len(UpperCase) : UpperCase[k] = s[i]]
     ELSE s[i]]

\* s.replace(/_/g, '.')
UnderscoresToDots(s) == [i \in 1..Len(s) |-> IF s[i] = "_" THEN "." ELSE s[i]]

Digits == {"0", "1", "2", "3", "4", "5", "6", "7", "8", "9"}

\* s.match(/prefix([class]+)/): the capture of the leftmost match, the
\* longest run of class characters after prefix, or null without a match.
RegexCapture(s, prefix, class) ==
  LET n == Len(prefix)
      starts == {i \in 1..(Len(s) - n) :
                   /\ SubSeq(s, i, i + n - 1) = prefix
                   /\ s[i + n] \in class}
  IN IF starts = {} THEN Null
     ELSE LET i == CHOOSE k \in starts : \A j \in starts : k <= j
              b == i + n
              e == CHOOSE k \in b..Len(s) :
                     /\ \A j \in b..k : s[j] \in class
                     /\ k = Len(s) \/ s[k + 1] \notin class
          IN Str(SubSeq(s, b, e))

\* ------------------------------------------------------- string literals

S_LOOPBACK4 == <<"1","2","7",".","0",".","0",".","1">>
S_LOOPBACK6 == <<":",":","1">>
S_MAPPED == <<":",":","f","f","f","f",":">>
S_NET192 == <<"1","9","2",".","1","6","8",".">>
S_NET10 == <<"1","0",".">>
S_UNKNOWN == <<"U","n","k","n","o","w","n">>
S_LOCAL == <<"L","o","c","a","l">>
S_LOCALHOST == <<"L","o","c","a","l","h","o","s","t">>
S_GPS_LOCATION == <<"G","P","S"," ","L","o","c","a","t","i","o","n">>

\* --------------------------------------------------------------- getClientIP

\* The chain with X-Real-IP tried before X-Forwarded-For.
ChosenAddressRealIPFirst(q) ==
  Or(Or(Or(Or(Or(Or(q.headers.xri, q.headers.xff), q.headers.xci),
              q.remoteAddress), q.remoteAddress), q.remoteAddress),
     Str(S_LOOPBACK4))

\* A request as getClientIP reads it: the three forwarding headers and the
\* transport peer address, each a string or undefined.  req.connection is
\* req.socket, and with 'trust proxy' set req.ip is the peer address
\* whenever X-Forwarded-For is empty or missing, so the fifth and sixth
\* operands of the || chain repeat the fourth.
ChosenAddress(q) ==
  Or(Or(Or(Or(Or(Or(q.headers.xff, q.headers.xri), q.headers.xci),
              q.remoteAddress), q.remoteAddress), q.remoteAddress),
     Str(S_LOOPBACK4))

\* if (ip.includes(',')) ip = ip.split(',')[0].trim()
FirstEntry(s) == IF Includes(s, <<",">>) THEN Trim(SplitFirst(s)) ELSE s

\* if (ip === '::1') ip = '127.0.0.1'
Loopback6To4(s) == IF s = S_LOOPBACK6 THEN S_LOOPBACK4 ELSE s

\* The prefix test with substring(6): the last colon of the prefix kept.
StripMappedShort(s) == IF StartsWith(s, S_MAPPED) THEN Substring(s, 6) ELSE s

\* if (ip.startsWith('::ffff:')) ip = ip.substring(7)
StripMapped(s) == IF StartsWith(s, S_MAPPED) THEN Substring(s, 7) ELSE s

getClientIP(q) == StripMapped(Loopback6To4(FirstEntry(ChosenAddress(q).s)))

\* ---------------------------------------------------------- getIPGeolocation

\* The guard without the '10.' prefix.
IsLocalIPWithout10(ip) ==
  \/ ip = S_LOOPBACK4
  \/ ip = S_LOOPBACK6
  \/ StartsWith(ip, S_NET192)

\* The guard of the short circuit: loopback or a private-network prefix.
IsLocalIP(ip) ==
  \/ ip = S_LOOPBACK4
  \/ ip = S_LOOPBACK6
  \/ StartsWith(ip, S_NET192)
  \/ StartsWith(ip, S_NET10)

LocalSentinel ==
  [country |-> S_LOCAL, city |-> S_LOCALHOST, region |-> S_LOCAL,
   timezone |-> S_LOCAL]

UnknownSentinel ==
  [country |-> S_UNKNOWN, city |-> S_UNKNOWN, region |-> S_UNKNOWN,
   timezone |-> S_UNKNOWN]

\* What the awaited fetch and response.json() can produce: a success
\* payload (fields present or missing), a non-ok status, a rejected fetch,
\* a body that is not JSON.
S_US == <<"U","n","i","t","e","d"," ","S","t","a","t","e","s">>
S_MTV == <<"M","o","u","n","t","a","i","n"," ","V","i","e","w">>
S_CA == <<"C","a","l","i","f","o","r","n","i","a">>
S_TZ_LA == <<"A","m","e","r","i","c","a","/","L","o","s","_","A","n","g","e","l","e","s">>

FullPayload ==
  [country_name |-> Str(S_US), city |-> Str(S_MTV), region |-> Str(S_CA),
   timezone |-> Str(S_TZ_LA)]

NoCityPayload ==
  [country_name |-> Str(S_US), city |-> Undef, region |-> Str(<<>>),
   timezone |-> Str(S_TZ_LA)]

NoPayload == [country_name |-> Undef, city |-> Undef, region |-> Undef,
              timezone |-> Undef]

FetchOutcomes ==
  {[kind |-> "ok", data |-> FullPayload],
   [kind |-> "ok", data |-> NoCityPayload],
   [kind |-> "not_ok", data |-> NoPayload],
   [kind |-> "network_error", data |-> NoPayload],
   [kind |-> "malformed", data |-> NoPayload]}

LookupFailed(o) == o.kind \in {"not_ok", "network_error", "malformed"}

\* The body of getIPGeolocation after the awaited fetch: the catch block
\* turns every failure into the Unknown sentinel.
MapLookup(o) ==
  IF o.kind = "ok"
  THEN [country |-> Or(o.data.country_name, Str(S_UNKNOWN)).s,
        city |-> Or(o.data.city, Str(S_UNKNOWN)).s,
        region |-> Or(o.data.region, Str(S_UNKNOWN)).s,
        timezone |-> Or(o.data.timezone, Str(S_UNKNOWN)).s]
  ELSE UnknownSentinel

\* ----------------------------------------------------- determineBestLocation

S_GPS == <<"g","p","s">>
S_BROWSER == <<"b","r","o","w","s","e","r">>
S_IP == <<"i","p">>

determineBestLocation(locationData) ==
  IF Truthy(locationData.gps_latitude) /\ Truthy(locationData.gps_longitude)
  THEN [source |-> S_GPS, country |-> locationData.ip_country,
        city |-> S_GPS_LOCATION]
  ELSE IF /\ Truthy(locationData.browser_timezone)
          /\ locationData.browser_timezone # Str(S_UNKNOWN)
       THEN [source |-> S_BROWSER, country |-> locationData.ip_country,
             city |-> locationData.ip_city]
       ELSE [source |-> S_IP, country |-> locationData.ip_country,
             city |-> locationData.ip_city]

\* The helper functions each revision's file declares.  src/server.js
\* calls determineBestLocation (line 345) and declares no such binding.
Bindings(revision) ==
  CASE revision = "part_000" -> {"getClientIP"}
    [] revision = "part_001" ->
         {"getClientIP", "getIPGeolocation", "determineBestLocation"}
    [] revision = "server" ->
         {"getClientIP", "getIPGeolocation", "parseDeviceInfo"}

Revisions == {"part_000", "part_001", "server"}

\* Revisions whose handler awaits getIPGeolocation and builds locationData.
StoresLocation(revision) == "getIPGeolocation" \in Bindings(revision)

\* The locationData object before the reconciliation.
LocationData(body, ipLocation) ==
  [ip_country |-> ipLocation.country,
   ip_city |-> ipLocation.city,
   ip_region |-> ipLocation.region,
   ip_timezone |-> ipLocation.timezone,
   gps_latitude |-> Or(body.gps_latitude, Null),
   gps_longitude |-> Or(body.gps_longitude, Null),
   gps_accuracy |-> Or(body.gps_accuracy, Null),
   browser_timezone |-> Or(body.browser_timezone, Str(S_UNKNOWN)),
   browser_language |-> Or(body.browser_language, Str(S_UNKNOWN))]

\* locationData with final_country, final_city and location_source set.
FinalLocation(body, ipLocation) ==
  LET locationData == LocationData(body, ipLocation)
      bestLocation == determineBestLocation(locationData)
  IN [ip_country |-> locationData.ip_country,
      ip_city |-> locationData.ip_city,
      ip_region |-> locationData.ip_region,
      ip_timezone |-> locationData.ip_timezone,
      gps_latitude |-> locationData.gps_latitude,
      gps_longitude |-> locationData.gps_longitude,
      gps_accuracy |-> locationData.gps_accuracy,
      browser_timezone |-> locationData.browser_timezone,
      browser_language |-> locationData.browser_language,
      final_country |-> bestLocation.country,
      final_city |-> bestLocation.city,
      location_source |-> bestLocation.source]

\* ------------------------------------------------------------ Message schema

\* new Message({...}): content is message.trim(), ipAddress the resolved IP.
NewMessage(revision, body, ip, ipLocation) ==
  [content |-> Trim(body.message.s),
   ipAddress |-> ip,
   location |-> IF StoresLocation(revision)
                THEN FinalLocation(body, ipLocation)
                ELSE Undef]

\* The schema with ipAddress not required.
SchemaAcceptsAnyIP(doc) ==
  /\ doc.content # <<>>
  /\ Len(doc.content) <= MaxLength

\* The validators save() runs before writing: required on a String path
\* rejects the empty string, maxLength bounds the content.
SchemaAccepts(doc) ==
  /\ doc.content # <<>>
  /\ Len(doc.content) <= MaxLength
  /\ doc.ipAddress # <<>>

\* ----------------------------------------------------------- parseDeviceInfo

\* The substrings and patterns tested against the lower-cased user agent.
Tested ==
  [android |-> <<"a","n","d","r","o","i","d">>,
   iphone |-> <<"i","p","h","o","n","e">>,
   ipad |-> <<"i","p","a","d">>,
   windows |-> <<"w","i","n","d","o","w","s">>,
   mac_os |-> <<"m","a","c"," ","o","s">>,
   linux |-> <<"l","i","n","u","x">>,
   chrome |-> <<"c","h","r","o","m","e">>,
   edg |-> <<"e","d","g">>,
   safari |-> <<"s","a","f","a","r","i">>,
   firefox |-> <<"f","i","r","e","f","o","x">>,
   iphone_os |-> <<"i","p","h","o","n","e"," ","o","s">>,
   iphone14 |-> <<"i","p","h","o","n","e","1","4">>,
   iphone13 |-> <<"i","p","h","o","n","e","1","3">>,
   iphone12 |-> <<"i","p","h","o","n","e","1","2">>,
   samsung |-> <<"s","a","m","s","u","n","g">>,
   galaxy |-> <<"g","a","l","a","x","y">>,
   pixel |-> <<"p","i","x","e","l">>,
   oneplus |-> <<"o","n","e","p","l","u","s">>,
   xiaomi |-> <<"x","i","a","o","m","i">>,
   huawei |-> <<"h","u","a","w","e","i">>,
   android_sp |-> <<"a","n","d","r","o","i","d"," ">>,
   os_sp |-> <<"o","s"," ">>,
   mac_os_x_sp |-> <<"m","a","c"," ","o","s"," ","x"," ">>,
   chrome_sl |-> <<"c","h","r","o","m","e","/">>,
   version_sl |-> <<"v","e","r","s","i","o","n","/">>,
   firefox_sl |-> <<"f","i","r","e","f","o","x","/">>,
   edg_sl |-> <<"e","d","g","/">>,
   nt100 |-> <<"w","i","n","d","o","w","s"," ","n","t"," ","1","0",".","0">>,
   nt63 |-> <<"w","i","n","d","o","w","s"," ","n","t"," ","6",".","3">>,
   nt61 |-> <<"w","i","n","d","o","w","s"," ","n","t"," ","6",".","1">>]

\* The values reported.
Reported ==
  [android |-> <<"A","n","d","r","o","i","d">>,
   ios |-> <<"i","O","S">>,
   ipados |-> <<"i","P","a","d","O","S">>,
   windows |-> <<"W","i","n","d","o","w","s">>,
   macos |-> <<"m","a","c","O","S">>,
   linux |-> <<"L","i","n","u","x">>,
   chrome |-> <<"C","h","r","o","m","e">>,
   safari |-> <<"S","a","f","a","r","i">>,
   firefox |-> <<"F","i","r","e","f","o","x">>,
   edge |-> <<"M","i","c","r","o","s","o","f","t"," ","E","d","g","e">>,
   apple |-> <<"A","p","p","l","e">>,
   iphone14 |-> <<"i","P","h","o","n","e"," ","1","4">>,
   iphone13 |-> <<"i","P","h","o","n","e"," ","1","3">>,
   iphone12 |-> <<"i","P","h","o","n","e"," ","1","2">>,
   iphone |-> <<"i","P","h","o","n","e">>,
   ipad |-> <<"i","P","a","d">>,
   samsung |-> <<"S","a","m","s","u","n","g">>,
   galaxy |-> <<"G","a","l","a","x","y">>,
   google |-> <<"G","o","o","g","l","e">>,
   pixel |-> <<"P","i","x","e","l">>,
   oneplus |-> <<"O","n","e","P","l","u","s">>,
   xiaomi |-> <<"X","i","a","o","m","i">>,
   huawei |-> <<"H","u","a","w","e","i">>,
   desktop |-> <<"d","e","s","k","t","o","p">>,
   mobile |-> <<"m","o","b","i","l","e">>,
   tablet |-> <<"t","a","b","l","e","t">>,
   v10_11 |-> <<"1","0","/","1","1">>,
   v8_1 |-> <<"8",".","1">>,
   v7 |-> <<"7">>]

\* deviceData.k: undefined when the client did not send k.
Field(deviceData, k) ==
  IF k \in DOMAIN deviceData THEN deviceData[k] ELSE Undef

\* deviceData.k !== undefined ? deviceData.k : true
DefinedOrTrue(x) == IF x # Undef THEN x ELSE Bool(TRUE)

\* Determine device type.
DeviceType(deviceData) ==
  IF Truthy(Field(deviceData, "isMobile")) THEN Reported.mobile
  ELSE IF Truthy(Field(deviceData, "isTablet")) THEN Reported.tablet
  ELSE Reported.desktop

\* match ? match[1] : the default 'Unknown'
CaptureOrUnknown(m) == IF Truthy(m) THEN m.s ELSE S_UNKNOWN

\* Parse Operating System.
ParseOS(ua) ==
  IF Includes(ua, Tested.android)
  THEN [operatingSystem |-> Reported.android,
        osVersion |->
          CaptureOrUnknown(RegexCapture(ua, Tested.android_sp,
                                        Digits \cup {"."}))]
  ELSE IF Includes(ua, Tested.iphone) \/ Includes(ua, Tested.ipad)
  THEN LET iosMatch == RegexCapture(ua, Tested.os_sp, Digits \cup {"_"})
       IN [operatingSystem |->
             IF Includes(ua, Tested.ipad) THEN Reported.ipados
             ELSE Reported.ios,
           osVersion |-> IF Truthy(iosMatch)
                         THEN UnderscoresToDots(iosMatch.s)
                         ELSE S_UNKNOWN]
  ELSE IF Includes(ua, Tested.windows)
  THEN [operatingSystem |-> Reported.windows,
        osVersion |-> IF Includes(ua, Tested.nt100) THEN Reported.v10_11
                      ELSE IF Includes(ua, Tested.nt63) THEN Reported.v8_1
                      ELSE IF Includes(ua, Tested.nt61) THEN Reported.v7
                      ELSE S_UNKNOWN]
  ELSE IF Includes(ua, Tested.mac_os)
  THEN LET macMatch == RegexCapture(ua, Tested.mac_os_x_sp, Digits \cup {"_"})
       IN [operatingSystem |-> Reported.macos,
           osVersion |-> IF Truthy(macMatch)
                         THEN UnderscoresToDots(macMatch.s)
                         ELSE S_UNKNOWN]
  ELSE IF Includes(ua, Tested.linux)
  THEN [operatingSystem |-> Reported.linux, osVersion |-> S_UNKNOWN]
  ELSE [operatingSystem |-> S_UNKNOWN, osVersion |-> S_UNKNOWN]

\* The four browser rules: the condition, the name reported and the
\* pattern of the version.
BrowserRules == {"chrome", "safari", "firefox", "edg"}

BrowserRuleMatches(rule, ua) ==
  CASE rule = "chrome" ->
         Includes(ua, Tested.chrome) /\ ~Includes(ua, Tested.edg)
    [] rule = "safari" ->
         Includes(ua, Tested.safari) /\ ~Includes(ua, Tested.chrome)
    [] rule = "firefox" -> Includes(ua, Tested.firefox)
    [] rule = "edg" -> Includes(ua, Tested.edg)

BrowserRuleName(rule) ==
  CASE rule = "chrome" -> Reported.chrome
    [] rule = "safari" -> Reported.safari
    [] rule = "firefox" -> Reported.firefox
    [] rule = "edg" -> Reported.edge

BrowserRulePattern(rule) ==
  CASE rule = "chrome" -> Tested.chrome_sl
    [] rule = "safari" -> Tested.version_sl
    [] rule = "firefox" -> Tested.firefox_sl
    [] rule = "edg" -> Tested.edg_sl

\* The rules tested in a given order, the first that matches deciding.
BrowserBy(order, ua) ==
  LET hits == {i \in 1..Len(order) : BrowserRuleMatches(order[i], ua)}
  IN IF hits = {}
     THEN [browser |-> S_UNKNOWN, browserVersion |-> S_UNKNOWN]
     ELSE LET rule == order[CHOOSE i \in hits : \A j \in hits : i <= j]
          IN [browser |-> BrowserRuleName(rule),
              browserVersion |->
                CaptureOrUnknown(RegexCapture(ua, BrowserRulePattern(rule),
                                              Digits \cup {"."}))]

\* The if / else-if chain as written.
BrowserChain == <<"chrome", "safari", "firefox", "edg">>

\* The chain with the Microsoft Edge rule tested first.
ParseBrowserEdgeFirst(ua) ==
  BrowserBy(<<"edg", "chrome", "safari", "firefox">>, ua)

\* Parse Browser.
ParseBrowser(ua) == BrowserBy(BrowserChain, ua)

\* The iPhone model from the generation substrings.
IphoneModel(ua) ==
  IF Includes(ua, Tested.iphone14) THEN Reported.iphone14
  ELSE IF Includes(ua, Tested.iphone13) THEN Reported.iphone13
  ELSE IF Includes(ua, Tested.iphone12) THEN Reported.iphone12
  ELSE Reported.iphone

\* The brands after the iPhone branch.
ParseOtherBrand(ua) ==
  IF Includes(ua, Tested.ipad)
  THEN [deviceBrand |-> Reported.apple, deviceModel |-> Reported.ipad]
  ELSE IF Includes(ua, Tested.samsung)
  THEN [deviceBrand |-> Reported.samsung,
        deviceModel |-> IF Includes(ua, Tested.galaxy) THEN Reported.galaxy
                        ELSE S_UNKNOWN]
  ELSE IF Includes(ua, Tested.pixel)
  THEN [deviceBrand |-> Reported.google, deviceModel |-> Reported.pixel]
  ELSE IF Includes(ua, Tested.oneplus)
  THEN [deviceBrand |-> Reported.oneplus, deviceModel |-> S_UNKNOWN]
  ELSE IF Includes(ua, Tested.xiaomi)
  THEN [deviceBrand |-> Reported.xiaomi, deviceModel |-> S_UNKNOWN]
  ELSE IF Includes(ua, Tested.huawei)
  THEN [deviceBrand |-> Reported.huawei, deviceModel |-> S_UNKNOWN]
  ELSE [deviceBrand |-> S_UNKNOWN, deviceModel |-> S_UNKNOWN]

\* The brand and model with the iPhone model set for every iPhone.
ParseBrandModelAnyIphone(ua) ==
  IF Includes(ua, Tested.iphone)
  THEN [deviceBrand |-> Reported.apple, deviceModel |-> IphoneModel(ua)]
  ELSE ParseOtherBrand(ua)

\* Parse Device Brand and Model.
ParseBrandModel(ua) ==
  IF Includes(ua, Tested.iphone)
  THEN [deviceBrand |-> Reported.apple,
        deviceModel |-> IF Includes(ua, Tested.iphone_os) THEN IphoneModel(ua)
                        ELSE S_UNKNOWN]
  ELSE ParseOtherBrand(ua)

parseDeviceInfo(userAgent, deviceData) ==
  LET ua == ToLowerCase(userAgent)
      os == ParseOS(ua)
      br == ParseBrowser(ua)
      bm == ParseBrandModel(ua)
      D(k) == Field(deviceData, k)
  IN [userAgent |-> Str(userAgent),
      platform |-> Or(D("platform"), Str(S_UNKNOWN)),
      isMobile |-> Or(D("isMobile"), Bool(FALSE)),
      isTablet |-> Or(D("isTablet"), Bool(FALSE)),
      isDesktop |-> Bool(~Truthy(D("isMobile")) /\ ~Truthy(D("isTablet"))),
      deviceType |-> Str(DeviceType(deviceData)),
      deviceBrand |-> Str(bm.deviceBrand),
      deviceModel |-> Str(bm.deviceModel),
      operatingSystem |-> Str(os.operatingSystem),
      osVersion |-> Str(os.osVersion),
      browser |-> Str(br.browser),
      browserVersion |-> Str(br.browserVersion),
      screenWidth |-> Or(D("screenWidth"), Null),
      screenHeight |-> Or(D("screenHeight"), Null),
      colorDepth |-> Or(D("colorDepth"), Null),
      pixelRatio |-> Or(D("pixelRatio"), Null),
      connectionType |-> Or(D("connectionType"), Str(S_UNKNOWN)),
      isOnline |-> DefinedOrTrue(D("isOnline")),
      touchSupport |-> Or(D("touchSupport"), Bool(FALSE)),
      cookiesEnabled |-> DefinedOrTrue(D("cookiesEnabled")),
      javaEnabled |-> Or(D("javaEnabled"), Bool(FALSE)),
      batteryLevel |-> Or(D("batteryLevel"), Null),
      batteryCharging |-> Or(D("batteryCharging"), Null),
      hasGyroscope |-> Or(D("hasGyroscope"), Bool(FALSE)),
      hasAccelerometer |-> Or(D("hasAccelerometer"), Bool(FALSE)),
      hasCompass |-> Or(D("hasCompass"), Bool(FALSE))]

\* ------------------------------------------------------------------ inputs

S_HI == <<"h","i">>
S_PEER_MAPPED == <<":",":","f","f","f","f",":","2","0","3",".","0",".","1","1","3",".","7">>
S_XFF_LIST == <<"2","0","3",".","0",".","1","1","3",".","5",","," ","1","0",".","0",".","0",".","1">>
S_XFF_EMPTY_FIRST == <<","," ","1","0",".","0",".","0",".","1">>
S_PRIVATE192 == <<"1","9","2",".","1","6","8",".","1",".","5">>
S_PRIVATE10 == <<"1","0",".","1",".","2",".","3">>
S_CGNAT == <<"1","0","0",".","6","4",".","0",".","9">>
S_XFF_MAPPED_LOOPBACK == <<":",":","f","f","f","f",":",":",":","1">>

\* message of req.body: missing, not a string, empty, white space only,
\* short, padded, and the lengths around MaxLength.
Messages ==
  {Undef, Num(5), Str(<<>>), Str(<<" ", "\t", " ">>), Str(S_HI),
   Str(<<" ">> \o S_HI \o <<"\n">>),
   Str(Repeat("a", MaxLength)),
   Str(Repeat("a", MaxLength + 1)),
   Str(Repeat(" ", MaxLength + 1)),
   Str(Repeat("a", MaxLength) \o <<" ">>),
   Str(<<" ">> \o Repeat("a", MaxLength - 1))}

Connection(xff, xri, xci, remoteAddress) ==
  [headers |-> [xff |-> xff, xri |-> xri, xci |-> xci],
   remoteAddress |-> remoteAddress]

DefaultConnection == Connection(Undef, Undef, Undef, Str(S_PEER_MAPPED))

\* Forwarding headers and peer addresses of the handled requests.
Connections ==
  {DefaultConnection,
   Connection(Undef, Undef, Undef, Undef),
   Connection(Undef, Undef, Undef, Str(S_LOOPBACK6)),
   Connection(Str(S_XFF_LIST), Undef, Undef, Str(S_PEER_MAPPED)),
   Connection(Str(S_XFF_EMPTY_FIRST), Undef, Undef, Str(S_PEER_MAPPED)),
   Connection(Str(S_MAPPED), Undef, Undef, Str(S_PEER_MAPPED)),
   Connection(Undef, Str(S_PRIVATE192), Undef, Str(S_PEER_MAPPED)),
   Connection(Undef, Undef, Str(S_PRIVATE10), Str(S_PEER_MAPPED)),
   Connection(Str(S_CGNAT), Undef, Undef, Str(S_LOOPBACK6)),
   Connection(Str(S_XFF_MAPPED_LOOPBACK), Undef, Undef, Str(S_PEER_MAPPED))}

Extras(lat, lon, tz) ==
  [gps_latitude |-> lat, gps_longitude |-> lon, gps_accuracy |-> Undef,
   browser_timezone |-> tz, browser_language |-> Undef]

DefaultExtras == Extras(Undef, Undef, Undef)

\* The optional GPS and browser fields of req.body.
ExtrasSet ==
  {Extras(lat, lon, tz) :
     lat \in {Undef, Num(0), Num(37)},
     lon \in {Undef, Num(-122)},
     tz \in {Undef, Str(S_UNKNOWN), Str(S_TZ_LA)}}

Request(m, c, e) ==
  [headers |-> c.headers,
   remoteAddress |-> c.remoteAddress,
   body |-> [message |-> m,
             gps_latitude |-> e.gps_latitude,
             gps_longitude |-> e.gps_longitude,
             gps_accuracy |-> e.gps_accuracy,
             browser_timezone |-> e.browser_timezone,
             browser_language |-> e.browser_language]]

\* The requests sent: every message and every connection, each with every
\* combination of the optional fields.
Requests ==
  {Request(m, DefaultConnection, e) : m \in Messages, e \in ExtrasSet}
    \cup {Request(Str(S_HI), c, e) : c \in Connections, e \in ExtrasSet}

S_XFF_MAPPED_TWICE == <<":",":","f","f","f","f",":",":",":","f","f","f","f",":","1","0",".","1",".","2",".","3">>
S_XFF_PADDED_LIST == <<" ","1","9","8",".","5","1",".","1","0","0",".","4"," ",","," ","1","0",".","0",".","0",".","1">>
S_XFF_LOOPBACK_LIST == <<":",":","1",","," ","1","0",".","0",".","0",".","1">>

\* The requests getClientIP is applied to on its own: every combination of
\* the four sources, each missing, empty or set.
ProbeConnections ==
  {Connection(xff, xri, xci, remoteAddress) :
     xff \in {Undef, Str(<<>>), Str(S_XFF_LIST), Str(S_XFF_EMPTY_FIRST),
              Str(S_MAPPED), Str(S_XFF_MAPPED_LOOPBACK),
              Str(S_XFF_MAPPED_TWICE), Str(S_XFF_PADDED_LIST),
              Str(S_LOOPBACK6), Str(S_XFF_LOOPBACK_LIST)},
     xri \in {Undef, Str(<<>>), Str(S_PRIVATE192)},
     xci \in {Undef, Str(S_PRIVATE10)},
     remoteAddress \in {Undef, Str(S_LOOPBACK6), Str(S_PEER_MAPPED),
                        Str(S_CGNAT)}}

\* User agents: a product token, a device comment and any of four browser
\* tokens.
UA_MOZILLA == <<"M","o","z","i","l","l","a","/","5",".","0">>
UA_T_CHROME == <<"C","h","r","o","m","e","/","1","2","0",".","0">>
UA_T_SAFARI ==
  <<"V","e","r","s","i","o","n","/","1","6",".","1"," ","S","a","f","a","r",
    "i","/","6","0","4",".","1">>
UA_T_FIREFOX == <<"F","i","r","e","f","o","x","/","1","1","9",".","0">>
UA_T_EDG == <<"E","d","g","/","1","2","0",".","0">>
UA_D_IPHONE_OS ==
  <<"(","i","P","h","o","n","e",";"," ","C","P","U"," ","i","P","h","o","n",
    "e"," ","O","S"," ","1","6","_","1"," ","l","i","k","e"," ","M","a","c",
    " ","O","S"," ","X",")">>
UA_D_IPHONE ==
  <<"(","i","P","h","o","n","e",";"," ","C","P","U"," ","O","S"," ","1","6",
    "_","1",")">>
UA_D_IPHONE14 ==
  <<"(","i","P","h","o","n","e","1","4",",","2",";"," ","i","O","S"," ","1",
    "6",".","1",")">>
UA_D_IPHONE14_OS ==
  <<"(","i","P","h","o","n","e","1","4",",","2",";"," ","i","P","h","o","n",
    "e"," ","O","S"," ","1","6","_","1",")">>
UA_D_IPHONE13_OS ==
  <<"(","i","P","h","o","n","e","1","3",",","2",";"," ","i","P","h","o","n",
    "e"," ","O","S"," ","1","5","_","4",")">>
UA_D_IPHONE12_OS ==
  <<"(","i","P","h","o","n","e","1","2",",","1",";"," ","i","P","h","o","n",
    "e"," ","O","S"," ","1","4","_","8",")">>
UA_D_IPAD ==
  <<"(","i","P","a","d",";"," ","C","P","U"," ","O","S"," ","1","6","_","1",
    " ","l","i","k","e"," ","M","a","c"," ","O","S"," ","X",")">>
UA_D_WINDOWS ==
  <<"(","W","i","n","d","o","w","s"," ","N","T"," ","1","0",".","0",";"," ",
    "W","i","n","6","4",";"," ","x","6","4",")">>
UA_D_WINDOWS7 ==
  <<"(","W","i","n","d","o","w","s"," ","N","T"," ","6",".","1",")">>
UA_D_MAC ==
  <<"(","M","a","c","i","n","t","o","s","h",";"," ","I","n","t","e","l"," ",
    "M","a","c"," ","O","S"," ","X"," ","1","0","_","1","5","_","7",")">>
UA_D_LINUX ==
  <<"(","X","1","1",";"," ","L","i","n","u","x"," ","x","8","6","_","6","4",
    ")">>
UA_D_GALAXY ==
  <<"(","L","i","n","u","x",";"," ","A","n","d","r","o","i","d"," ","1","3",
    ";"," ","S","A","M","S","U","N","G"," ","G","a","l","a","x","y"," ","S",
    "2","3",")">>
UA_D_PIXEL ==
  <<"(","L","i","n","u","x",";"," ","A","n","d","r","o","i","d"," ","1","4",
    ";"," ","P","i","x","e","l"," ","8",")">>
UA_D_HUAWEI ==
  <<"(","L","i","n","u","x",";"," ","A","n","d","r","o","i","d"," ","1","0",
    ";"," ","H","U","A","W","E","I"," ","P","4","0",")">>

Devices ==
  {<<>>, UA_D_IPHONE_OS, UA_D_IPHONE, UA_D_IPHONE14, UA_D_IPHONE14_OS,
   UA_D_IPHONE13_OS, UA_D_IPHONE12_OS, UA_D_IPAD, UA_D_WINDOWS,
   UA_D_WINDOWS7, UA_D_MAC, UA_D_LINUX, UA_D_GALAXY, UA_D_PIXEL, UA_D_HUAWEI}

Token(present, token) == IF present THEN <<" ">> \o token ELSE <<>>

UserAgent(device, chrome, safari, firefox, edg) ==
  UA_MOZILLA \o Token(device # <<>>, device) \o Token(chrome, UA_T_CHROME)
    \o Token(safari, UA_T_SAFARI) \o Token(firefox, UA_T_FIREFOX)
    \o Token(edg, UA_T_EDG)

UserAgents ==
  {S_UNKNOWN} \cup
  {UserAgent(d, c, s, f, e) : d \in Devices, c \in BOOLEAN, s \in BOOLEAN,
                              f \in BOOLEAN, e \in BOOLEAN}

\* The deviceInfo a client sends: nothing, a phone's, a tablet's.
NoDeviceData == [k \in {} |-> Undef]
PhoneDeviceData ==
  [platform |-> Str(Reported.iphone), isMobile |-> Bool(TRUE),
   isTablet |-> Bool(FALSE), screenWidth |-> Num(390),
   screenHeight |-> Num(844), isOnline |-> Bool(FALSE),
   touchSupport |-> Bool(TRUE), cookiesEnabled |-> Bool(FALSE),
   batteryLevel |-> Num(0), batteryCharging |-> Bool(FALSE)]
TabletDeviceData ==
  [isTablet |-> Bool(TRUE), pixelRatio |-> Num(2), hasGyroscope |-> Bool(TRUE)]

DeviceDataSet == {NoDeviceData, PhoneDeviceData, TabletDeviceData}

\* ------------------------------------------------------------------- state

VARIABLES
  rev,         \* the deployed revision
  req,         \* req[r]: the request of call r (Undef before it arrives)
  phase,       \* phase[r]: where call r's handler stands
  clientIP,    \* clientIP[r]: the handler's clientIP
  ipLocation,  \* ipLocation[r]: the handler's ipLocation
  lookup,      \* lookup[r]: "none", or how call r's external lookup ended
  fetches,     \* fetches[r]: external lookups issued for call r
  storeError,  \* storeError[r]: the store refused call r's write
  response,    \* response[r]: the response sent for call r
  messages,    \* the Message collection, in insertion order
  stats,       \* the GET /stats responses sent
  probe        \* a request handed to getClientIP alone, and its result

vars ==
  <<rev, req, phase, clientIP, ipLocation, lookup, fetches, storeError,
    response, messages, stats, probe>>

Calls == 1..NumRequests

Init ==
  /\ rev \in Revisions
  /\ req = [r \in Calls |-> Undef]
  /\ phase = [r \in Calls |-> "new"]
  /\ clientIP = [r \in Calls |-> Undef]
  /\ ipLocation = [r \in Calls |-> Undef]
  /\ lookup = [r \in Calls |-> "none"]
  /\ fetches = [r \in Calls |-> 0]
  /\ storeError = [r \in Calls |-> FALSE]
  /\ response = [r \in Calls |-> Undef]
  /\ messages = <<>>
  /\ stats = <<>>
  /\ probe = Undef

\* ---------------------------------------------------------------- responses

Reply400(error) == [status |-> 400, success |-> FALSE, error |-> error]

Reply500 ==
  [status |-> 500, success |-> FALSE,
   error |-> "Failed to send message. Please try again."]

\* res.json({success: true, ...}); the location block from bestLocation.
Reply200(revision, doc) ==
  [status |-> 200, success |-> TRUE, error |-> "",
   location |-> IF StoresLocation(revision)
                THEN [city |-> doc.location.final_city,
                      country |-> doc.location.final_country,
                      source |-> doc.location.location_source]
                ELSE Undef]

\* ------------------------------------------------- POST /send-message steps

\* The checks with the length test on the trimmed message.
ValidateTrimmedLength(message) ==
  IF ~Truthy(message) THEN "Message cannot be empty"
  ELSE IF message.t # "string" THEN "TypeError"
  ELSE IF Len(Trim(message.s)) = 0 THEN "Message cannot be empty"
  ELSE IF Len(Trim(message.s)) > MaxLength
       THEN "Message too long (max 1000 characters)"
       ELSE "ok"

\* The two validation checks at the head of the handler:
\* "ok", or the error text of the 400 response.  A truthy message that is
\* no string has no trim method: the TypeError reaches the catch block.
Validate(message) ==
  IF ~Truthy(message) THEN "Message cannot be empty"
  ELSE IF message.t # "string" THEN "TypeError"
  ELSE IF Len(Trim(message.s)) = 0 THEN "Message cannot be empty"
  ELSE IF Len(message.s) > MaxLength
       THEN "Message too long (max 1000 characters)"
       ELSE "ok"

\* The handler from the reconciliation to the call of save(): where it
\* stands afterwards.  A call of an undeclared binding throws a
\* ReferenceError, which the catch block answers with the 500 response;
\* a document the schema refuses makes save() reject without a write.
AfterLocation(revision, q, ip, loc) ==
  IF StoresLocation(revision)
     /\ "determineBestLocation" \notin Bindings(revision)
  THEN "done"
  ELSE IF SchemaAccepts(NewMessage(revision, q.body, ip, loc))
       THEN "saving"
       ELSE "failed"

Finish(r, next) ==
  /\ phase' = [phase EXCEPT ![r] = next]
  /\ response' = [response EXCEPT ![r] =
                    IF next = "done" THEN Reply500 ELSE Undef]

\* The request arrives and the handler runs to its first suspension.
Receive(r, q) ==
  /\ phase[r] = "new"
  /\ req' = [req EXCEPT ![r] = q]
  /\ LET v == Validate(q.body.message)
         ip == getClientIP(q)
     IN IF v = "TypeError"
        THEN /\ phase' = [phase EXCEPT ![r] = "done"]
             /\ response' = [response EXCEPT ![r] = Reply500]
             /\ UNCHANGED <<clientIP, ipLocation, fetches>>
        ELSE IF v # "ok"
        THEN /\ phase' = [phase EXCEPT ![r] = "done"]
             /\ response' = [response EXCEPT ![r] = Reply400(v)]
             /\ UNCHANGED <<clientIP, ipLocation, fetches>>
        ELSE /\ clientIP' = [clientIP EXCEPT ![r] = Str(ip)]
             /\ IF ~StoresLocation(rev)
                THEN /\ Finish(r, AfterLocation(rev, q, ip, Undef))
                     /\ UNCHANGED <<ipLocation, fetches>>
                ELSE IF IsLocalIP(ip)
                THEN /\ ipLocation' = [ipLocation EXCEPT ![r] = LocalSentinel]
                     /\ Finish(r, AfterLocation(rev, q, ip, LocalSentinel))
                     /\ UNCHANGED fetches
                ELSE /\ phase' = [phase EXCEPT ![r] = "fetching"]
                     /\ fetches' = [fetches EXCEPT ![r] = @ + 1]
                     /\ UNCHANGED <<ipLocation, response>>
  /\ UNCHANGED <<rev, lookup, storeError, messages, stats, probe>>

\* The external lookup answers (or fails) and the handler resumes.
FetchResponds(r, o) ==
  /\ phase[r] = "fetching"
  /\ lookup' = [lookup EXCEPT ![r] =
                  IF LookupFailed(o) THEN "failed" ELSE "ok"]
  /\ ipLocation' = [ipLocation EXCEPT ![r] = MapLookup(o)]
  /\ Finish(r, AfterLocation(rev, req[r], clientIP[r].s, MapLookup(o)))
  /\ UNCHANGED <<rev, req, clientIP, fetches, storeError, messages, stats,
                 probe>>

\* The store writes the document of a pending save().
StoreWrites(r) ==
  /\ phase[r] = "saving"
  /\ messages' = Append(messages,
                        NewMessage(rev, req[r].body, clientIP[r].s,
                                   ipLocation[r]))
  /\ phase' = [phase EXCEPT ![r] = "saved"]
  /\ UNCHANGED <<rev, req, clientIP, ipLocation, lookup, fetches, storeError,
                 response, stats, probe>>

\* The store refuses the write: save() rejects.
StoreRefuses(r) ==
  /\ phase[r] = "saving"
  /\ storeError' = [storeError EXCEPT ![r] = TRUE]
  /\ phase' = [phase EXCEPT ![r] = "failed"]
  /\ UNCHANGED <<rev, req, clientIP, ipLocation, lookup, fetches, response,
                 messages, stats, probe>>

\* The handler answering success whether or not save() rejected.
RespondIgnoringFailure(r) ==
  /\ phase[r] \in {"saved", "failed"}
  /\ response' = [response EXCEPT ![r] =
       Reply200(rev, NewMessage(rev, req[r].body, clientIP[r].s,
                                ipLocation[r]))]
  /\ phase' = [phase EXCEPT ![r] = "done"]
  /\ UNCHANGED <<rev, req, clientIP, ipLocation, lookup, fetches, storeError,
                 messages, stats, probe>>

\* The handler resumes after save(): res.json on success, the catch block
\* on rejection.
Respond(r) ==
  /\ phase[r] \in {"saved", "failed"}
  /\ response' = [response EXCEPT ![r] =
       IF phase[r] = "saved"
       THEN Reply200(rev, NewMessage(rev, req[r].body, clientIP[r].s,
                                     ipLocation[r]))
       ELSE Reply500]
  /\ phase' = [phase EXCEPT ![r] = "done"]
  /\ UNCHANGED <<rev, req, clientIP, ipLocation, lookup, fetches, storeError,
                 messages, stats, probe>>

\* GET /stats: countDocuments, then the response.
Stats ==
  /\ Len(stats) < MaxStats
  /\ stats' = Append(stats, [status |-> 200, totalMessages |-> Len(messages)])
  /\ UNCHANGED <<rev, req, phase, clientIP, ipLocation, lookup, fetches,
                 storeError, response, messages, probe>>

\* One call at a time, over every request.
Next ==
  \/ \E q \in Requests : Receive(1, q)
  \/ \E r \in Calls : \E o \in FetchOutcomes : FetchResponds(r, o)
  \/ \E r \in Calls : StoreWrites(r)
  \/ \E r \in Calls : StoreRefuses(r)
  \/ \E r \in Calls : Respond(r)
  \/ Stats

Spec == Init /\ [][Next]_vars

\* Calls in flight together, over the requests that reach each outcome.
ConcurrentRequests ==
  {Request(Str(S_HI), DefaultConnection, DefaultExtras),
   Request(Str(S_HI), Connection(Undef, Undef, Undef, Str(S_LOOPBACK6)),
           Extras(Num(37), Num(-122), Undef)),
   Request(Str(<<" ">>), DefaultConnection, DefaultExtras),
   Request(Str(<<" ">> \o Repeat("a", MaxLength - 1)),
           Connection(Str(S_XFF_EMPTY_FIRST), Undef, Undef, Undef),
           DefaultExtras),
   Request(Str(S_HI), Connection(Str(S_MAPPED), Undef, Undef, Undef),
           DefaultExtras)}

NextConcurrent ==
  \/ \E r \in Calls : \E q \in ConcurrentRequests : Receive(r, q)
  \/ \E r \in Calls : \E o \in FetchOutcomes : FetchResponds(r, o)
  \/ \E r \in Calls : StoreWrites(r)
  \/ \E r \in Calls : StoreRefuses(r)
  \/ \E r \in Calls : Respond(r)
  \/ Stats

SpecConcurrent == Init /\ [][NextConcurrent]_vars

\* The server's own steps and the store's answers are taken when they can
\* be; nothing makes the external lookup answer: the handler awaits fetch
\* with neither a timeout nor an abort signal.
FairSpec ==
  /\ Spec
  /\ WF_vars(\E r \in Calls : Respond(r))
  /\ WF_vars(\E r \in Calls : StoreWrites(r) \/ StoreRefuses(r))

\* getClientIP on its own: a request is drawn, the function applied.
InitClientIP ==
  /\ rev \in Revisions
  /\ req = [r \in Calls |-> Undef]
  /\ phase = [r \in Calls |-> "new"]
  /\ clientIP = [r \in Calls |-> Undef]
  /\ ipLocation = [r \in Calls |-> Undef]
  /\ lookup = [r \in Calls |-> "none"]
  /\ fetches = [r \in Calls |-> 0]
  /\ storeError = [r \in Calls |-> FALSE]
  /\ response = [r \in Calls |-> Undef]
  /\ messages = <<>>
  /\ stats = <<>>
  /\ probe \in {[q |-> c, ip |-> Undef] : c \in ProbeConnections}

ApplyGetClientIP ==
  /\ probe.ip = Undef
  /\ probe' = [probe EXCEPT !.ip = Str(getClientIP(probe.q))]
  /\ UNCHANGED <<rev, req, phase, clientIP, ipLocation, lookup, fetches,
                 storeError, response, messages, stats>>

NextClientIP == ApplyGetClientIP

SpecClientIP == InitClientIP /\ [][NextClientIP]_vars

\* The handler's variables before any call.
Idle ==
  /\ req = [r \in Calls |-> Undef]
  /\ phase = [r \in Calls |-> "new"]
  /\ clientIP = [r \in Calls |-> Undef]
  /\ ipLocation = [r \in Calls |-> Undef]
  /\ lookup = [r \in Calls |-> "none"]
  /\ fetches = [r \in Calls |-> 0]
  /\ storeError = [r \in Calls |-> FALSE]
  /\ response = [r \in Calls |-> Undef]
  /\ messages = <<>>
  /\ stats = <<>>

\* One call of POST /send-message run to its response by a revision, the
\* external lookup answering o (when one is issued) and the store writing
\* the document (storeOk) or refusing it: the response sent and the
\* documents written.
HandlerOutcome(revision, q, o, storeOk) ==
  LET v == Validate(q.body.message)
      ip == getClientIP(q)
      loc == IF ~StoresLocation(revision) THEN Undef
             ELSE IF IsLocalIP(ip) THEN LocalSentinel
             ELSE MapLookup(o)
      doc == NewMessage(revision, q.body, ip, loc)
  IN IF v = "TypeError" THEN [response |-> Reply500, written |-> <<>>]
     ELSE IF v # "ok" THEN [response |-> Reply400(v), written |-> <<>>]
     ELSE IF AfterLocation(revision, q, ip, loc) = "saving" /\ storeOk
          THEN [response |-> Reply200(revision, doc), written |-> <<doc>>]
          ELSE [response |-> Reply500, written |-> <<>>]

\* The three revisions on one request, one lookup answer and one store.
InitRevisions ==
  /\ rev = "server"
  /\ Idle
  /\ probe \in {[q |-> q, o |-> o, storeOk |-> b, out |-> Undef] :
                   q \in Requests, o \in FetchOutcomes, b \in BOOLEAN}

ApplyRevisions ==
  /\ probe.out = Undef
  /\ probe' = [probe EXCEPT !.out =
                  [v \in Revisions |->
                     HandlerOutcome(v, probe.q, probe.o, probe.storeOk)]]
  /\ UNCHANGED <<rev, req, phase, clientIP, ipLocation, lookup, fetches,
                 storeError, response, messages, stats>>

NextRevisions == ApplyRevisions

SpecRevisions == InitRevisions /\ [][NextRevisions]_vars

\* parseDeviceInfo on one user agent and one deviceData.
InitDeviceInfo ==
  /\ rev = "server"
  /\ Idle
  /\ probe \in {[userAgent |-> u, deviceData |-> d, out |-> Undef] :
                   u \in UserAgents, d \in DeviceDataSet}

ApplyParseDeviceInfo ==
  /\ probe.out = Undef
  /\ probe' = [probe EXCEPT
                  !.out = parseDeviceInfo(probe.userAgent, probe.deviceData)]
  /\ UNCHANGED <<rev, req, phase, clientIP, ipLocation, lookup, fetches,
                 storeError, response, messages, stats>>

NextDeviceInfo == ApplyParseDeviceInfo

SpecDeviceInfo == InitDeviceInfo /\ [][NextDeviceInfo]_vars

\* ------------------------------------------------------------------ claims

\* A message the handler is to accept: a string whose trim has 1..MaxLength
\* characters and whose untrimmed length is at most MaxLength.
AcceptableMessage(m) ==
  /\ m.t = "string"
  /\ Len(Trim(m.s)) >= 1
  /\ Len(Trim(m.s)) <= MaxLength
  /\ Len(m.s) <= MaxLength

Answered(r) == phase[r] = "done"

\* C1: in the canonical revision, with the store accepting the write, every
\* acceptable message is answered success:true and exactly one Message is
\* persisted, with content trim(m), whatever the optional fields are.
\* The canonical handler calls determineBestLocation, which src/server.js
\* never declares: every such call is answered 500 and nothing is written.
C1_CanonicalAcceptsValid ==
  \A r \in Calls :
    (/\ rev = "server"
     /\ Answered(r)
     /\ AcceptableMessage(req[r].body.message)
     /\ ~storeError[r])
    => /\ response[r].success
       /\ Len(messages) = 1
       /\ messages[1].content = Trim(req[r].body.message.s)

\* C2: the number of persisted Messages equals the number of calls answered
\* success:true plus the calls whose write is done and whose answer is still
\* to be sent; once every call is answered it is the number of successes,
\* and no GET /stats response reports more than the collection holds.
C2_CountMatchesSuccesses ==
  /\ Len(messages) =
       Cardinality({r \in Calls :
                      \/ phase[r] = "saved"
                      \/ (Answered(r) /\ response[r].success)})
  /\ \A r \in Calls :
       (Answered(r) /\ ~response[r].success)
       => response[r].status \in {400, 500}
  /\ \A i \in 1..Len(stats) : stats[i].totalMessages <= Len(messages)

\* Two calls answered, one with success and one with an error, and one
\* document in the collection.
C2_Witness ==
  /\ \A r \in Calls : Answered(r)
  /\ \E r \in Calls : response[r].success
  /\ \E r \in Calls : response[r].status \in {400, 500}
  /\ Len(messages) = 1
  /\ Len(stats) = 1

\* C3: every persisted Message has a non-empty content that equals its own
\* trim and has at most MaxLength characters, and a non-empty ipAddress.
C3_PersistedWellFormed ==
  \A i \in 1..Len(messages) :
    /\ messages[i].content # <<>>
    /\ messages[i].content = Trim(messages[i].content)
    /\ Len(messages[i].content) <= MaxLength
    /\ messages[i].ipAddress # <<>>

\* A Message is persisted, and a call whose forwarding header resolves to
\* the empty address has been answered.
C3_Witness ==
  /\ Len(messages) >= 1
  /\ \E r \in Calls : Answered(r) /\ clientIP[r] = Str(<<>>)

\* C4: a valid submission from a non-private IP whose external lookup fails
\* gets the Unknown sentinel from getIPGeolocation and, the store accepting
\* the write, is answered success:true and persisted with
\* ip_country = ip_city = 'Unknown'.
\* Holds of part_001; fails of src/server.js, where the handler throws on
\* determineBestLocation after the sentinel is returned (see C1).
C4_LookupFailureStillPersists ==
  \A r \in Calls :
    (/\ StoresLocation(rev)
     /\ Answered(r)
     /\ lookup[r] = "failed"
     /\ clientIP[r] # Str(<<>>)
     /\ ~storeError[r])
    => /\ ipLocation[r] = UnknownSentinel
       /\ response[r].success
       /\ Len(messages) = 1
       /\ messages[1].location.ip_country = S_UNKNOWN
       /\ messages[1].location.ip_city = S_UNKNOWN

\* C5: every submission that passes validation is eventually answered,
\* whatever the external lookup does.
\* The handler awaits the lookup with no timeout: a lookup that never
\* answers leaves the call suspended for ever.
C5_ValidatedEventuallyAnswered ==
  \A r \in Calls :
    (phase[r] \in {"fetching", "saving", "saved", "failed"}) ~> Answered(r)

\* C6 as claimed: every message whose untrimmed length exceeds MaxLength is
\* answered 400 with the too-long error, and nothing is persisted.
C6_EveryLongMessageTooLong ==
  \A r \in Calls :
    (/\ Answered(r)
     /\ req[r].body.message.t = "string"
     /\ Len(req[r].body.message.s) > MaxLength)
    => /\ response[r] = Reply400("Message too long (max 1000 characters)")
       /\ messages = <<>>

\* C6, amended: a message whose untrimmed length exceeds MaxLength is
\* answered 400 and nothing is persisted; the error is the too-long error
\* unless the message is white space only, which the emptiness check,
\* made first, answers with 'Message cannot be empty'.
C6_LongMessageRejected ==
  \A r \in Calls :
    (/\ Answered(r)
     /\ req[r].body.message.t = "string"
     /\ Len(req[r].body.message.s) > MaxLength)
    => /\ response[r] =
            Reply400(IF Trim(req[r].body.message.s) = <<>>
                     THEN "Message cannot be empty"
                     ELSE "Message too long (max 1000 characters)")
       /\ messages = <<>>

\* A message longer than MaxLength whose trim is not, answered too long.
C6_Witness ==
  \E r \in Calls :
    /\ Answered(r)
    /\ req[r].body.message.t = "string"
    /\ Len(req[r].body.message.s) > MaxLength
    /\ Len(Trim(req[r].body.message.s)) = MaxLength
    /\ response[r].status = 400
    /\ response[r].error = "Message too long (max 1000 characters)"

\* The reconciliation as specified, on the request's own fields: gps when
\* latitude and longitude are both given, else browser when a timezone
\* other than 'Unknown' is given, else ip.
C7_Expected(body, loc) ==
  IF Truthy(body.gps_latitude) /\ Truthy(body.gps_longitude)
  THEN [source |-> S_GPS, city |-> S_GPS_LOCATION, country |-> loc.country]
  ELSE IF Truthy(body.browser_timezone)
          /\ body.browser_timezone # Str(S_UNKNOWN)
       THEN [source |-> S_BROWSER, city |-> loc.city, country |-> loc.country]
       ELSE [source |-> S_IP, city |-> loc.city, country |-> loc.country]

\* C7: in every revision that stores a location, the canonical one
\* included, an accepted submission's persisted final_country, final_city
\* and location_source and the response's location block carry the values
\* of the priority gps > browser > ip.
\* Holds of part_001; src/server.js calls determineBestLocation without
\* declaring it, so no location is ever reconciled, stored or returned.
C7_LocationReconciled ==
  \A r \in Calls :
    (/\ StoresLocation(rev)
     /\ Answered(r)
     /\ AcceptableMessage(req[r].body.message)
     /\ clientIP[r] # Str(<<>>)
     /\ ~storeError[r])
    => LET e == C7_Expected(req[r].body, ipLocation[r])
       IN /\ response[r].success
          /\ response[r].location =
               [city |-> e.city, country |-> e.country, source |-> e.source]
          /\ Len(messages) = 1
          /\ messages[1].location.final_country = e.country
          /\ messages[1].location.final_city = e.city
          /\ messages[1].location.location_source = e.source

\* getClientIP has been applied to the probed request.
Probed == probe # Undef /\ probe.ip # Undef

Present(v) == v.t # "undefined"

\* The first source that is present, in the order of the claim.
C8_FirstPresent(q) ==
  IF Present(q.headers.xff) THEN q.headers.xff
  ELSE IF Present(q.headers.xri) THEN q.headers.xri
  ELSE IF Present(q.headers.xci) THEN q.headers.xci
  ELSE IF Present(q.remoteAddress) THEN q.remoteAddress
  ELSE Str(S_LOOPBACK4)

\* The first source that is present and not the empty string.
C8_FirstNonEmpty(q) ==
  IF Present(q.headers.xff) /\ q.headers.xff.s # <<>> THEN q.headers.xff
  ELSE IF Present(q.headers.xri) /\ q.headers.xri.s # <<>> THEN q.headers.xri
  ELSE IF Present(q.headers.xci) /\ q.headers.xci.s # <<>> THEN q.headers.xci
  ELSE IF Present(q.remoteAddress) /\ q.remoteAddress.s # <<>>
       THEN q.remoteAddress
       ELSE Str(S_LOOPBACK4)

\* The first entry, trimmed, of a comma-separated list; the value itself
\* otherwise; then the two normalisations.
C8_Resolved(v) ==
  LET entry == IF \E i \in 1..Len(v) : v[i] = ","
               THEN Trim(SplitFirst(v))
               ELSE v
  IN StripMapped(Loopback6To4(entry))

\* C8 as claimed: the address comes from the first source that is present,
\* in the order X-Forwarded-For, X-Real-IP, X-Client-IP, peer address,
\* '127.0.0.1', and of a comma-separated list the first entry, trimmed.
C8_FirstPresentSourceUsed ==
  Probed => probe.ip.s = C8_Resolved(C8_FirstPresent(probe.q).s)

\* C8, amended: the address comes from the first source that is present
\* and not empty (an empty header value is passed over like a missing
\* one), and of a comma-separated list the first entry, trimmed.
C8_FirstNonEmptySourceUsed ==
  Probed => probe.ip.s = C8_Resolved(C8_FirstNonEmpty(probe.q).s)

\* X-Forwarded-For holds a list while X-Real-IP and X-Client-IP are set:
\* the list's first entry is the address.
C8_Witness ==
  /\ Probed
  /\ probe.q.headers.xff = Str(S_XFF_LIST)
  /\ probe.q.headers.xri = Str(S_PRIVATE192)
  /\ probe.q.headers.xci = Str(S_PRIVATE10)
  /\ probe.ip.s = <<"2","0","3",".","0",".","1","1","3",".","5">>

\* The address getClientIP normalises: the chosen value, or its first
\* entry when it is a list.
C9_Entry == FirstEntry(ChosenAddress(probe.q).s)

\* C9 as claimed: '::1' resolves to '127.0.0.1', a '::ffff:'-prefixed
\* address to the address without the prefix, and the result is never
\* '::1' and never starts with '::ffff:'.
C9_NeverLoopback6NorMapped ==
  Probed =>
    /\ (C9_Entry = S_LOOPBACK6 => probe.ip.s = S_LOOPBACK4)
    /\ (StartsWith(C9_Entry, S_MAPPED) =>
          probe.ip.s = SubSeq(C9_Entry, 8, Len(C9_Entry)))
    /\ probe.ip.s # S_LOOPBACK6
    /\ ~StartsWith(probe.ip.s, S_MAPPED)

\* C9, amended: '::1' resolves to '127.0.0.1' and a '::ffff:'-prefixed
\* address to the address with one occurrence of the prefix removed, the
\* loopback test being made before the prefix is removed; the result is
\* '::1' or starts with '::ffff:' only when what follows the removed
\* prefix is such a value.
C9_NormalisedOnce ==
  Probed =>
    /\ (C9_Entry = S_LOOPBACK6 => probe.ip.s = S_LOOPBACK4)
    /\ (StartsWith(C9_Entry, S_MAPPED) =>
          probe.ip.s = SubSeq(C9_Entry, 8, Len(C9_Entry)))
    /\ (probe.ip.s = S_LOOPBACK6 \/ StartsWith(probe.ip.s, S_MAPPED))
         => /\ StartsWith(C9_Entry, S_MAPPED)
            /\ probe.ip.s = SubSeq(C9_Entry, 8, Len(C9_Entry))

\* A peer address '::ffff:203.0.113.7' resolved to '203.0.113.7'.
C9_Witness ==
  /\ Probed
  /\ C9_Entry = S_PEER_MAPPED
  /\ probe.ip.s = <<"2","0","3",".","0",".","1","1","3",".","7">>

\* Loopback, or one of the two private prefixes.
C10_Private(ip) ==
  \/ ip \in {S_LOOPBACK4, S_LOOPBACK6}
  \/ (Len(ip) >= 8 /\ SubSeq(ip, 1, 8) = S_NET192)
  \/ (Len(ip) >= 3 /\ SubSeq(ip, 1, 3) = S_NET10)

\* C10: a call of getIPGeolocation with the loopback address or an address
\* starting with '192.168.' or '10.' returns the Local sentinel and issues
\* no external lookup; with any other address it issues exactly one.
C10_PrivateNeverLookedUp ==
  \A r \in Calls :
    (StoresLocation(rev) /\ clientIP[r] # Undef)
    => IF C10_Private(clientIP[r].s)
       THEN /\ ipLocation[r] = LocalSentinel
            /\ fetches[r] = 0
            /\ lookup[r] = "none"
       ELSE fetches[r] = 1

\* The address '10.1.2.3' got the Local sentinel with no lookup issued.
C10_Witness ==
  \E r \in Calls :
    /\ StoresLocation(rev)
    /\ clientIP[r] = Str(S_PRIVATE10)
    /\ ipLocation[r] = LocalSentinel
    /\ fetches[r] = 0

\* C11: on the same request, lookup answer and store, the three revisions
\* give the same status code, and when they accept they persist the same
\* content and ipAddress.
\* part_000 and part_001 agree; src/server.js answers 500 and writes
\* nothing wherever they accept, for want of determineBestLocation (C1).
C11_RevisionsAgree ==
  (probe.out # Undef) =>
    \A a, b \in Revisions :
      /\ probe.out[a].response.status = probe.out[b].response.status
      /\ Len(probe.out[a].written) = Len(probe.out[b].written)
      /\ (probe.out[a].written # <<>> /\ probe.out[b].written # <<>>)
           => /\ probe.out[a].written[1].content
                   = probe.out[b].written[1].content
              /\ probe.out[a].written[1].ipAddress
                   = probe.out[b].written[1].ipAddress

\* C11 without the canonical revision: part_000 and part_001 agree.
C11_EarlierRevisionsAgree ==
  (probe.out # Undef) =>
    /\ probe.out["part_000"].response.status
         = probe.out["part_001"].response.status
    /\ Len(probe.out["part_000"].written) = Len(probe.out["part_001"].written)

\* The lower-cased user agent parseDeviceInfo tests, once it has returned.
Parsed == probe.out # Undef
Ua == ToLowerCase(probe.userAgent)

\* The orders in which the four browser rules can be tested.
BrowserOrders ==
  {o \in [1..4 -> BrowserRules] : \A i, j \in 1..4 : o[i] = o[j] => i = j}

\* C12 as stated: the reported browser is the same whatever the order the
\* four rules are tested in, an 'edg' user agent is reported as Microsoft
\* Edge and a 'firefox' one as Firefox.
C12_OrderIndependent ==
  Parsed =>
    /\ \A o \in BrowserOrders : BrowserBy(o, Ua).browser = probe.out.browser.s
    /\ Includes(Ua, Tested.edg) => probe.out.browser.s = Reported.edge
    /\ Includes(Ua, Tested.firefox) => probe.out.browser.s = Reported.firefox

\* C12: the four browser rules are an else-if chain tested in the order
\* Chrome, Safari, Firefox, Microsoft Edge, and the first rule that
\* matches decides. An 'edg' user agent is reported as Microsoft Edge
\* unless it has 'safari' without 'chrome' (Safari) or 'firefox'
\* (Firefox); a 'firefox' one is reported as Firefox unless the Chrome or
\* the Safari rule matches. The order is immaterial exactly when at most
\* one rule matches.
C12_ChainDecides ==
  Parsed =>
    LET c == Includes(Ua, Tested.chrome)
        s == Includes(Ua, Tested.safari)
        f == Includes(Ua, Tested.firefox)
        e == Includes(Ua, Tested.edg)
        b == probe.out.browser.s
    IN /\ b = IF c /\ ~e THEN Reported.chrome
              ELSE IF s /\ ~c THEN Reported.safari
              ELSE IF f THEN Reported.firefox
              ELSE IF e THEN Reported.edge
              ELSE S_UNKNOWN
       /\ e => (b = Reported.edge <=> ~(s /\ ~c) /\ ~f)
       /\ e /\ s /\ ~c => b = Reported.safari
       /\ f => (b = Reported.firefox <=> ~(c /\ ~e) /\ ~(s /\ ~c))
       /\ (\A o \in BrowserOrders : BrowserBy(o, Ua).browser = b)
            <=> Cardinality({r \in BrowserRules :
                               BrowserRuleMatches(r, Ua)}) <= 1

\* An Edge user agent without 'chrome' but with 'safari' (Edge on iOS) has
\* been reported as Safari.
C12_Witness ==
  /\ Parsed
  /\ Includes(Ua, Tested.edg) /\ Includes(Ua, Tested.safari)
  /\ ~Includes(Ua, Tested.chrome)
  /\ probe.out.browser.s = Reported.safari
  /\ probe.out.browserVersion.s = <<"1", "6", ".", "1">>

\* C13 as stated: every 'iphone' user agent is reported with brand Apple
\* and the model of its generation substring, the generic iPhone without
\* one, never Unknown.
C13_IphoneModelNeverUnknown ==
  (Parsed /\ Includes(Ua, Tested.iphone)) =>
    /\ probe.out.deviceBrand.s = Reported.apple
    /\ probe.out.deviceModel.s = IphoneModel(Ua)
    /\ probe.out.deviceModel.s # S_UNKNOWN

\* C13: every 'iphone' user agent is reported with brand Apple; its model
\* is that of its generation substring, or the generic iPhone without
\* one, only when it also contains 'iphone os', and is left Unknown
\* otherwise.
C13_IphoneModelNeedsIphoneOs ==
  (Parsed /\ Includes(Ua, Tested.iphone)) =>
    /\ probe.out.deviceBrand.s = Reported.apple
    /\ probe.out.deviceModel.s =
         IF ~Includes(Ua, Tested.iphone_os) THEN S_UNKNOWN
         ELSE IF Includes(Ua, Tested.iphone14) THEN Reported.iphone14
         ELSE IF Includes(Ua, Tested.iphone13) THEN Reported.iphone13
         ELSE IF Includes(Ua, Tested.iphone12) THEN Reported.iphone12
         ELSE Reported.iphone

\* An 'iphone14' user agent without 'iphone os' has been reported as an
\* Apple device of Unknown model.
C13_Witness ==
  /\ Parsed
  /\ Includes(Ua, Tested.iphone14) /\ ~Includes(Ua, Tested.iphone_os)
  /\ probe.out.deviceBrand.s = Reported.apple
  /\ probe.out.deviceModel.s = S_UNKNOWN

====
